---- MODULE Spec2Model ----
(***************************************************************************)
(* Model of the multi-account login runner (scripts/login.js, the revision *)
(* with the retry loop).  One control position `pc` walks through main,    *)
(* loginWithAccount and attemptLogin: the program is a single async chain  *)
(* in which every call is awaited, so there is exactly one point of        *)
(* control.  Every driver call is an action of its own with an "ok" and a  *)
(* "fault" outcome.  A call of the notifier is awaited too: the caller     *)
(* stays where it is while `notifier` follows the fetches of the call.     *)
(*                                                                         *)
(* Text is a sequence of characters (one-character strings).  A character  *)
(* outside ASCII is written "uXXXX" after its code point.  A message whose *)
(* content no operation of the program inspects (an exception text, a      *)
(* configuration error) is a sequence holding one token.                   *)
(***************************************************************************)
EXTENDS Integers, Sequences, FiniteSets, TLC

\* const MAX_RETRIES = 2
MAX_RETRIES == 2

\* Largest number of accounts (object entries or array items) in the
\* configuration value.
MaxAccounts == 2

(***************************************************************************)
(* Text: case folding, substring search, class tokens.                     *)
(***************************************************************************)
UpperCase == <<"A","B","C","D","E","F","G","H","I","J","K","L","M","N","O","P","Q","R","S","T","U","V","W","X","Y","Z">>

LowerCase == <<"a","b","c","d","e","f","g","h","i","j","k","l","m","n","o","p","q","r","s","t","u","v","w","x","y","z">>

\* The /i flag of a regular expression: letters compare by their lower case.
Lower(c) ==
    IF \E k \in 1..Len(UpperCase) : UpperCase[k] = c
    THEN LowerCase[CHOOSE k \in 1..Len(UpperCase) : UpperCase[k] = c]
    ELSE c

Fold(s) == [k \in 1..Len(s) |-> Lower(s[k])]

\* String.prototype.includes / an unanchored literal regular expression.
Includes(s, sub) ==
    \E k \in 0..(Len(s) - Len(sub)) : SubSeq(s, k + 1, k + Len(sub)) = sub

IncludesCI(s, sub) == Includes(Fold(s), Fold(sub))

\* A CSS class selector .name: name is one of the space-separated tokens of
\* the class attribute.
HasClassToken(attr, name) ==
    \E k \in 0..(Len(attr) - Len(name)) :
        /\ SubSeq(attr, k + 1, k + Len(name)) = name
        /\ (k = 0 \/ attr[k] = " ")
        /\ (k + Len(name) = Len(attr) \/ attr[k + Len(name) + 1] = " ")

Concat(s, t) == s \o t

(***************************************************************************)
(* Selectors of attemptLogin.  A text selector text=/a|b|c/i is the set of *)
(* its alternatives; a class selector .name; an attribute selector         *)
(* [class*="sub"].                                                         *)
(***************************************************************************)
TextSel(alts) == [kind |-> "text", alts |-> alts, arg |-> <<>>]

ClassSel(name) == [kind |-> "class", alts |-> {}, arg |-> name]

ClassSubSel(sub) == [kind |-> "classSub", alts |-> {}, arg |-> sub]

\* /\/auth\/login/i
LoginPathPattern == <<"/","a","u","t","h","/","l","o","g","i","n">>

\* text=/Verify you are human|需要验证|安全检查|review the security|Cloudflare|Turnstile/i
humanCheckSelector ==
    TextSel({ <<"V","e","r","i","f","y"," ","y","o","u"," ","a","r","e"," ","h","u","m","a","n">>,
              <<"u9700","u8981","u9A8C","u8BC1">>,
              <<"u5B89","u5168","u68C0","u67E5">>,
              <<"r","e","v","i","e","w"," ","t","h","e"," ","s","e","c","u","r","i","t","y">>,
              <<"C","l","o","u","d","f","l","a","r","e">>,
              <<"T","u","r","n","s","t","i","l","e">> })

successSelectors ==
    << TextSel({ <<"D","a","s","h","b","o","a","r","d">>, <<"u63A7","u5236","u53F0">>,
                 <<"u9762","u677F">>, <<"u4EEA","u8868","u677F">> }),
       TextSel({ <<"L","o","g","o","u","t">>, <<"S","i","g","n"," ","o","u","t">>,
                 <<"u9000","u51FA">>, <<"u767B","u51FA">> }),
       TextSel({ <<"W","e","l","c","o","m","e">>, <<"u6B22","u8FCE">> }),
       TextSel({ <<"A","c","c","o","u","n","t">>, <<"u8D26","u6237">>, <<"u8D26","u53F7">> }),
       TextSel({ <<"P","r","o","f","i","l","e">>, <<"u4E2A","u4EBA","u8D44","u6599">> }) >>

errorSelectors ==
    << TextSel({ <<"I","n","v","a","l","i","d">>, <<"i","n","c","o","r","r","e","c","t">>,
                 <<"u9519","u8BEF">>, <<"u5931","u8D25">>, <<"u65E0","u6548">>,
                 <<"u4E0D","u6B63","u786E">> }),
       TextSel({ <<"E","r","r","o","r">>, <<"u5F02","u5E38">>, <<"u95EE","u9898">> }),
       ClassSel(<<"e","r","r","o","r","-","m","e","s","s","a","g","e">>),
       ClassSel(<<"a","l","e","r","t","-","e","r","r","o","r">>),
       ClassSel(<<"t","e","x","t","-","d","a","n","g","e","r">>),
       ClassSubSel(<<"e","r","r","o","r">>),
       ClassSubSel(<<"a","l","e","r","t">>),
       ClassSubSel(<<"d","a","n","g","e","r">>) >>

\* 'Error', the marker looked for in the title and the body text.
ErrorMarker == <<"E","r","r","o","r">>

(***************************************************************************)
(* Messages.                                                               *)
(***************************************************************************)
\* '登录成功'
MsgSuccess == <<"u767B","u5F55","u6210","u529F">>

\* '登录失败'
MsgLoginFailed == <<"u767B","u5F55","u5931","u8D25">>

\* '页面显示错误状态'
MsgPageError == <<"u9875","u9762","u663E","u793A","u9519","u8BEF","u72B6","u6001">>

\* '人机验证页面'
MsgHumanCheck == <<"u4EBA","u673A","u9A8C","u8BC1","u9875","u9762">>

\* '异常: '
ExceptionPrefix == <<"u5F02","u5E38",":"," ">>

\* The text of the error a faulting driver call rejects with: a timeout.
FaultTexts == { <<"Timeout exceeded">> }

\* `环境变量 USERNAME_AND_PASSWORD 未设置`
MsgEnvUnset == <<"env USERNAME_AND_PASSWORD unset">>

\* 'USERNAME_AND_PASSWORD 格式错误，应为有效的 JSON 字符串'
MsgBadJson == <<"USERNAME_AND_PASSWORD malformed: expected a valid JSON string">>

\* 'USERNAME_AND_PASSWORD 应为对象格式'
MsgNotObject == <<"USERNAME_AND_PASSWORD must be an object">>

\* '未找到有效的账户信息'
MsgNoAccounts == <<"no valid account found">>

(***************************************************************************)
(* Pages the driver can show.  An element has its text content (what a     *)
(* text selector matches), its class attribute, and what innerText()       *)
(* resolves to (`inner`, or a rejection when innerFault).                  *)
(***************************************************************************)
El(text, class, inner, innerFault) ==
    [text |-> text, class |-> class, inner |-> inner, innerFault |-> innerFault]

\* const LOGIN_URL = 'https://ctrl.lunes.host/auth/login'
LOGIN_URL == <<"h","t","t","p","s",":","/","/","c","t","r","l",".","l","u","n","e","s",".","h","o","s","t","/","a","u","t","h","/","l","o","g","i","n">>

UrlLoginUpper == <<"h","t","t","p","s",":","/","/","c","t","r","l",".","l","u","n","e","s",".","h","o","s","t","/","A","u","t","h","/","L","o","g","i","n","?","n","e","x","t","=","1">>

UrlHome == <<"h","t","t","p","s",":","/","/","c","t","r","l",".","l","u","n","e","s",".","h","o","s","t","/">>

T_SignIn == <<"S","i","g","n"," ","i","n">>

T_VerifyHuman == <<"V","e","r","i","f","y"," ","y","o","u"," ","a","r","e"," ","h","u","m","a","n">>

T_CloudflareLower == <<"c","h","e","c","k","e","d"," ","b","y"," ","c","l","o","u","d","f","l","a","r","e">>

T_WelcomeBack == <<"W","e","l","c","o","m","e"," ","b","a","c","k">>

T_DashboardUpper == <<"D","A","S","H","B","O","A","R","D">>

T_InvalidCred == <<"I","n","v","a","l","i","d"," ","c","r","e","d","e","n","t","i","a","l","s">>

T_Bang == <<"!">>

T_BadPassword == <<"B","a","d"," ","p","a","s","s","w","o","r","d">>

T_Error500 == <<"E","r","r","o","r"," ","5","0","0">>

T_ErrorTitle == <<"E","r","r","o","r">>

T_LoginTitle == <<"L","o","g","i","n">>

\* Largest number of elements on a page drawn for the classifier.
MaxElems == 2

C_None == <<>>

C_ErrorMessage == <<"e","r","r","o","r","-","m","e","s","s","a","g","e">>

C_TextDanger == <<"t","e","x","t","-","d","a","n","g","e","r">>

C_BoxAlertError == <<"b","o","x"," ","a","l","e","r","t","-","e","r","r","o","r">>

C_ErrorIcon == <<"e","r","r","o","r","-","i","c","o","n">>

C_DangerZone == <<"d","a","n","g","e","r","-","z","o","n","e">>

Pg(url, title, elems) == [url |-> url, title |-> title, elems |-> elems]

\* What a fresh page shows before page.goto.
BlankPage == Pg(<<>>, <<>>, <<>>)

E_SignIn == El(T_SignIn, C_None, T_SignIn, FALSE)

E_Invalid == El(T_InvalidCred, C_None, T_InvalidCred, FALSE)

\* What page.goto can land on: the login form, a challenge page, a page
\* naming the vendor in lower case.
NavPages ==
    { Pg(LOGIN_URL, T_LoginTitle, << E_SignIn >>),
      Pg(LOGIN_URL, T_LoginTitle, << El(T_VerifyHuman, C_None, T_VerifyHuman, FALSE) >>),
      Pg(LOGIN_URL, T_LoginTitle,
         << E_SignIn, El(T_CloudflareLower, C_None, T_CloudflareLower, FALSE) >>) }

\* What the page can have become when the post-submit waits are over, in a
\* whole run: it left the login URL; it shows a success phrase on the login
\* URL; it shows an error phrase; it shows the form again.
PostPages ==
    { Pg(UrlHome, T_LoginTitle, << >>),
      Pg(LOGIN_URL, T_LoginTitle, << El(T_WelcomeBack, C_None, T_WelcomeBack, FALSE) >>),
      Pg(UrlLoginUpper, T_LoginTitle, << E_SignIn, E_Invalid >>),
      Pg(LOGIN_URL, T_LoginTitle, << E_SignIn >>) }

\* The elements the classifier's pages are built from.
Elements ==
    { E_SignIn,
      El(T_WelcomeBack, C_None, T_WelcomeBack, FALSE),
      El(T_DashboardUpper, C_None, T_DashboardUpper, FALSE),
      E_Invalid,
      El(T_InvalidCred, C_None, <<>>, TRUE),
      El(T_Bang, C_ErrorIcon, T_Bang, FALSE),
      El(T_Bang, C_ErrorMessage, T_Bang, FALSE),
      El(T_BadPassword, C_TextDanger, T_BadPassword, FALSE),
      El(T_Error500, C_BoxAlertError, T_Error500, FALSE),
      El(<<>>, C_DangerZone, <<>>, FALSE) }

\* Every page of up to MaxElems of these elements, under each URL and title:
\* the inputs the classifier is checked on.
ClassifierPages ==
    { Pg(u, t, es) :
        u \in {LOGIN_URL, UrlLoginUpper, UrlHome},
        t \in {T_LoginTitle, T_ErrorTitle},
        es \in UNION { [1..n -> Elements] : n \in 0..MaxElems } }

(***************************************************************************)
(* Locators.                                                               *)
(***************************************************************************)
Matches(sel, el) ==
    CASE sel.kind = "text" -> \E a \in sel.alts : IncludesCI(el.text, a)
      [] sel.kind = "class" -> HasClassToken(el.class, sel.arg)
      [] sel.kind = "classSub" -> Includes(el.class, sel.arg)

\* locator(sel).count()
Count(pg, sel) ==
    Cardinality({k \in 1..Len(pg.elems) : Matches(sel, pg.elems[k])})

\* locator(sel).first(): the first match in document order
First(pg, sel) ==
    pg.elems[CHOOSE k \in 1..Len(pg.elems) :
                /\ Matches(sel, pg.elems[k])
                /\ \A j \in 1..(k - 1) : ~Matches(sel, pg.elems[j])]

\* innerText().catch(() => '')
InnerTextOrEmpty(el) == IF el.innerFault THEN <<>> ELSE el.inner

\* page.locator('body').innerText().catch(() => '') includes s: the body's
\* rendered text is its elements' rendered texts, one per line.
BodyIncludes(pg, s) ==
    \E k \in 1..Len(pg.elems) : Includes(InnerTextOrEmpty(pg.elems[k]), s)

(***************************************************************************)
(* The outcome classifier of attemptLogin.                                 *)
(***************************************************************************)
\* const stillOnLogin = /\/auth\/login/i.test(url)
StillOnLogin(url) == IncludesCI(url, LoginPathPattern)

\* The loop over successSelectors: successHint += count, break at the first
\* selector that matches.
RECURSIVE SuccessHintFrom(_, _)
SuccessHintFrom(pg, k) ==
    IF k > Len(successSelectors) THEN 0
    ELSE LET count == Count(pg, successSelectors[k])
         IN  IF count > 0 THEN count ELSE SuccessHintFrom(pg, k + 1)

SuccessHint(pg) == SuccessHintFrom(pg, 1)

\* The success test with && for ||.
IsSuccess_AndMutant(stillOnLogin, successHint) == ~stillOnLogin /\ successHint > 0

\* if (!stillOnLogin || successHint > 0)
IsSuccess(stillOnLogin, successHint) == ~stillOnLogin \/ successHint > 0

\* The loop over errorSelectors: errorMsg is assigned at every selector that
\* matches, and the loop breaks when the assigned text is longer than 1.
RECURSIVE ErrorScanFrom(_, _, _)
ErrorScanFrom(pg, k, errorMsg) ==
    IF k > Len(errorSelectors) THEN errorMsg
    ELSE IF Count(pg, errorSelectors[k]) > 0
         THEN LET m == InnerTextOrEmpty(First(pg, errorSelectors[k]))
              IN  IF m # <<>> /\ Len(m) > 1 THEN m ELSE ErrorScanFrom(pg, k + 1, m)
         ELSE ErrorScanFrom(pg, k + 1, errorMsg)

\* if (!errorMsg) { title / body fallback }
ErrorMsgOf(pg) ==
    LET scanned == ErrorScanFrom(pg, 1, <<>>)
    IN  IF scanned = <<>>
        THEN IF Includes(pg.title, ErrorMarker) \/ BodyIncludes(pg, ErrorMarker)
             THEN MsgPageError
             ELSE <<>>
        ELSE scanned

\* message: errorMsg || '登录失败'
FailureMessage(pg) ==
    LET errorMsg == ErrorMsgOf(pg)
    IN  IF errorMsg # <<>> THEN errorMsg ELSE MsgLoginFailed

(***************************************************************************)
(* The configuration value USERNAME_AND_PASSWORD.  `raw` tells what the    *)
(* environment holds: nothing, the empty string, text that is not JSON, or *)
(* JSON text, and then `value` is what JSON.parse returns for it.          *)
(***************************************************************************)
JsonVal(t, items) == [t |-> t, items |-> items]

UserNames == << <<"a","@","x">>, <<"a",".","x">>, <<"b","@","y">>, <<"c","@","z">> >>

Password == <<"secret">>

JsonArray(n) == JsonVal("array", [k \in 1..n |-> Password])

JsonObject(n) == JsonVal("object", [k \in 1..n |-> <<UserNames[k], Password>>])

JsonValues ==
    { JsonVal("null", <<>>), JsonVal("boolean", <<>>), JsonVal("number", <<>>),
      JsonVal("string", <<>>) }
    \cup { JsonArray(n) : n \in 0..MaxAccounts }
    \cup { JsonObject(n) : n \in 0..MaxAccounts }

Configs ==
    { [raw |-> r, value |-> JsonVal("null", <<>>)] : r \in {"unset", "empty", "garbage"} }
    \cup { [raw |-> "json", value |-> v] : v \in JsonValues }

\* JavaScript's typeof: null and arrays are "object"
TypeOf(v) ==
    IF v.t \in {"null", "array", "object"} THEN "object" ELSE v.t

\* The property key of array index n
IndexKey(n) ==
    IF n < 10 THEN <<ToString(n)>> ELSE <<ToString(n \div 10), ToString(n % 10)>>

\* Object.entries: of an array, the pairs [index, item]; of an object, its
\* members (the member names used here are not array indices, so they keep
\* their insertion order).
ObjectEntries(v) ==
    IF v.t = "array"
    THEN [k \in 1..Len(v.items) |-> <<IndexKey(k - 1), v.items[k]>>]
    ELSE v.items

\* main, from envOrThrow to the accountEntries.length check: the entries, or
\* the error thrown.
ParseConfig(c) ==
    IF c.raw \in {"unset", "empty"}
    THEN [ok |-> FALSE, entries |-> <<>>, error |-> MsgEnvUnset]
    ELSE IF c.raw # "json"
    THEN [ok |-> FALSE, entries |-> <<>>, error |-> MsgBadJson]
    ELSE IF TypeOf(c.value) # "object" \/ c.value.t = "null"
    THEN [ok |-> FALSE, entries |-> <<>>, error |-> MsgNotObject]
    ELSE IF Len(ObjectEntries(c.value)) = 0
    THEN [ok |-> FALSE, entries |-> <<>>, error |-> MsgNoAccounts]
    ELSE [ok |-> TRUE, entries |-> ObjectEntries(c.value), error |-> <<>>]

(***************************************************************************)
(* State.                                                                  *)
(***************************************************************************)
\* Most iterations smartWait's polling loop can make before its timeout:
\* timeout / checkInterval, 30000 / 1000 in the call of attemptLogin, scaled
\* down.
MaxPolls == 2

VARIABLES
    config,         \* process.env.USERNAME_AND_PASSWORD
    credentials,    \* TELEGRAM_BOT_TOKEN and TELEGRAM_CHAT_ID are both set
    notifier,       \* the notifier call awaited: "idle" when none, the fetch
                    \* it awaits, or how it has returned to its caller
    pc,             \* the point of control
    err,            \* the error being thrown or caught
    accountEntries, \* main: Object.entries(accounts)
    i,              \* main: the loop index
    results,        \* main: the results array
    exitCode,       \* process.exitCode: <<>> while unset, else <<code>>
    initNotes,      \* notifications of stage '初始化' sent
    summaryNotes,   \* sendSummaryNotification calls
    summaryArg,     \* the results passed to sendSummaryNotification
    accountDelays,  \* inter-account timers awaited in this run
    retryCount,     \* loginWithAccount: retryCount
    result,         \* loginWithAccount: result, <<>> for null
    attempts,       \* attemptLogin calls made for the current account
    attemptLog,     \* how each returned attempt of the current account ended
    retryDelays,    \* 5 s retry timers awaited for the current account
    browsers,       \* browsers launched and not closed
    contexts,       \* browsing contexts created and not closed
    page,           \* the page shown
    botDetected,    \* attemptLogin: the human-check locator matched
    formOps,        \* clicks, clears and fills made in this attempt
    captureCalls,   \* page.screenshot calls made in this attempt
    capturePaths,   \* the path given to each of them
    captureFaults,  \* the page.screenshot calls of this attempt that rejected
    polls,          \* smartWait: iterations of the polling loop so far
    notes,          \* notifyTelegram calls made in this attempt
    attemptResult   \* the value at attemptLogin's return statement

mainVars == <<config, credentials, accountEntries, i, results, exitCode, initNotes,
              summaryNotes, summaryArg, accountDelays>>

lwaVars == <<retryCount, result, attempts, attemptLog, retryDelays>>

resVars == <<browsers, contexts>>

attVars == <<page, botDetected, formOps, captureCalls, capturePaths, captureFaults,
             polls, notes, attemptResult>>

vars == <<pc, err, notifier, mainVars, lwaVars, resVars, attVars>>

Init ==
    /\ config \in Configs
    /\ credentials \in BOOLEAN
    /\ notifier = "idle"
    /\ pc = "main_start"
    /\ err = <<>>
    /\ accountEntries = <<>>
    /\ i = 0
    /\ results = <<>>
    /\ exitCode = <<>>
    /\ initNotes = 0
    /\ summaryNotes = 0
    /\ summaryArg = <<>>
    /\ accountDelays = 0
    /\ retryCount = 0
    /\ result = <<>>
    /\ attempts = 0
    /\ attemptLog = <<>>
    /\ retryDelays = 0
    /\ browsers = 0
    /\ contexts = 0
    /\ page = BlankPage
    /\ botDetected = FALSE
    /\ formOps = <<>>
    /\ captureCalls = <<>>
    /\ capturePaths = <<>>
    /\ captureFaults = <<>>
    /\ polls = 0
    /\ notes = <<>>
    /\ attemptResult = <<>>

\* Control moves on inside attemptLogin's try block.
Goes(to) == pc' = to /\ err' = err

\* A driver call inside the try block rejects: control moves to the catch.
Throws == pc' = "a_catch" /\ err' \in FaultTexts

\* A driver call outside the try block (before it, or in the finally)
\* rejects: attemptLogin and loginWithAccount reject, main's catch runs.
Escapes == pc' = "main_catch" /\ err' \in FaultTexts

\* attemptLogin's locals are gone once it has returned or rejected.
DropLocals ==
    /\ page' = BlankPage
    /\ botDetected' = FALSE
    /\ formOps' = <<>>
    /\ captureCalls' = <<>>
    /\ capturePaths' = <<>>
    /\ captureFaults' = <<>>
    /\ polls' = 0
    /\ notes' = <<>>
    /\ attemptResult' = <<>>

Note(ok, stage) == [ok |-> ok, stage |-> stage]

Outcome(success, username, message) ==
    [success |-> success, username |-> username, message |-> message]

username == accountEntries[i + 1][1]

\* The stage names passed to screenshot(), as text.
StageText(name) ==
    CASE name = "01-human-check" ->
             <<"0","1","-","h","u","m","a","n","-","c","h","e","c","k">>
      [] name = "02-before-submit" ->
             <<"0","2","-","b","e","f","o","r","e","-","s","u","b","m","i","t">>
      [] name = "03-after-submit" ->
             <<"0","3","-","a","f","t","e","r","-","s","u","b","m","i","t">>
      [] name = "99-error" -> <<"9","9","-","e","r","r","o","r">>

\* username.replace(/[@.]/g, '_')
Sanitize(s) == [k \in 1..Len(s) |-> IF s[k] \in {"@", "."} THEN "_" ELSE s[k]]

\* ${retryCount > 0 ? `-retry${retryCount}` : ''}
RetrySuffix(retry) ==
    IF retry > 0 THEN <<"-","r","e","t","r","y">> \o IndexKey(retry) ELSE <<>>

\* The path without the retry suffix: a retry is given the path of the
\* first try.
screenshot_NoRetrySuffixMutant(name, index, user, retry) ==
    <<".","/">> \o StageText(name) \o <<"-">> \o IndexKey(index) \o <<"-">>
        \o Sanitize(user) \o <<".","p","n","g">>

\* const screenshot = (name) =>
\*   `./${name}-${index}-${username.replace(/[@.]/g, '_')}${...}.png`
\* (a number in a template literal is written in decimal, as IndexKey does)
screenshot(name, index, user, retry) ==
    <<".","/">> \o StageText(name) \o <<"-">> \o IndexKey(index) \o <<"-">>
        \o Sanitize(user) \o RetrySuffix(retry) \o <<".","p","n","g">>

(***************************************************************************)
(* notifyTelegram and sendSummaryNotification.  Every call of them is      *)
(* awaited: the caller stands still while `notifier` tells where the call  *)
(* is, and moves on once it has returned.  The whole body of both is in a  *)
(* try block whose catch logs and returns.                                 *)
(***************************************************************************)
\* How a notifier call has returned: without sending, for lack of the
\* credentials; after its fetches were fulfilled; from its catch block.
NotifierReturns == { "skipped", "sent", "failed" }

\* The call up to its first await: if (!token || !chatId) it logs and
\* returns, else it builds the text and awaits fetch(.../sendMessage).
NotifierCall == IF credentials THEN "sendMessage" ELSE "skipped"

\* screenshotPath && fs.existsSync(screenshotPath): the caller passed a path
\* and the capture it names was written.
HasScreenshot ==
    CASE pc \in { "a_botnotify", "a_success", "a_failure" } -> TRUE
      [] pc = "a_exception" ->
            ~(\E c \in 1..Len(captureFaults) : captureFaults[c] = "99-error")
      [] OTHER -> FALSE

\* A rejected fetch that nothing catches: the rejection reaches the caller.
SendMessage_UncaughtMutant ==
    /\ notifier = "sendMessage"
    /\ \/ /\ notifier' = IF HasScreenshot THEN "sendPhoto" ELSE "sent"
          /\ UNCHANGED <<pc, err>>
       \/ /\ notifier' = "idle"
          /\ pc' = IF pc \in { "a_botnotify", "a_success", "a_failure" }
                   THEN "a_catch" ELSE "main_catch"
          /\ err' \in FaultTexts
    /\ UNCHANGED <<mainVars, lwaVars, resVars, attVars>>

\* await fetch(url, ...) of the text message settles: fulfilled, and the
\* photo follows when there is one; or rejected, and the catch block logs.
SendMessage ==
    /\ notifier = "sendMessage"
    /\ \/ notifier' = IF HasScreenshot THEN "sendPhoto" ELSE "sent"
       \/ notifier' = "failed"
    /\ UNCHANGED <<pc, err, mainVars, lwaVars, resVars, attVars>>

\* fs.readFileSync and await fetch(photoUrl, ...) settle: fulfilled, or
\* thrown and logged by the catch block.
SendPhoto ==
    /\ notifier = "sendPhoto"
    /\ notifier' \in { "sent", "failed" }
    /\ UNCHANGED <<pc, err, mainVars, lwaVars, resVars, attVars>>

(***************************************************************************)
(* main                                                                    *)
(***************************************************************************)
MainStart ==
    /\ pc = "main_start"
    /\ LET parsed == ParseConfig(config)
       IN  IF parsed.ok
           THEN /\ accountEntries' = parsed.entries
                /\ pc' = "main_loop"
                /\ err' = err
           ELSE /\ accountEntries' = accountEntries
                /\ pc' = "main_catch"
                /\ err' = parsed.error
    /\ i' = 0
    /\ results' = <<>>
    /\ UNCHANGED <<notifier, config, credentials, exitCode, initNotes, summaryNotes, summaryArg,
                   accountDelays, lwaVars, resVars, attVars>>

\* loginWithAccount with retryCount and result kept from one call to the
\* next, as variables of the module would be.
MainLoop_SharedLocalsMutant ==
    /\ pc = "main_loop"
    /\ IF i < Len(accountEntries)
       THEN /\ pc' = "lwa_loop"
            /\ retryCount' = retryCount
            /\ result' = result
            /\ attempts' = 0
            /\ attemptLog' = <<>>
            /\ retryDelays' = 0
       ELSE /\ pc' = "main_summary"
            /\ UNCHANGED lwaVars
    /\ UNCHANGED <<err, notifier, mainVars, resVars, attVars>>

\* for (let i = 0; i < accountEntries.length; i++): the loop test, then the
\* call of loginWithAccount with its two locals initialised.
MainLoop ==
    /\ pc = "main_loop"
    /\ IF i < Len(accountEntries)
       THEN /\ pc' = "lwa_loop"
            /\ retryCount' = 0
            /\ result' = <<>>
            /\ attempts' = 0
            /\ attemptLog' = <<>>
            /\ retryDelays' = 0
       ELSE /\ pc' = "main_summary"
            /\ UNCHANGED lwaVars
    /\ UNCHANGED <<err, notifier, mainVars, resVars, attVars>>

\* The test before the inter-account delay, true after the last account too.
MainPushed_DelayAfterLastMutant ==
    /\ pc = "main_pushed"
    /\ IF i < Len(accountEntries)
       THEN pc' = "main_delay" /\ i' = i
       ELSE pc' = "main_loop" /\ i' = i + 1
    /\ UNCHANGED <<err, notifier, config, credentials, accountEntries, results, exitCode,
                   initNotes, summaryNotes, summaryArg, accountDelays, lwaVars, resVars,
                   attVars>>

\* if (i < accountEntries.length - 1) the delay is awaited; then i++
MainPushed ==
    /\ pc = "main_pushed"
    /\ IF i < Len(accountEntries) - 1
       THEN pc' = "main_delay" /\ i' = i
       ELSE pc' = "main_loop" /\ i' = i + 1
    /\ UNCHANGED <<err, notifier, config, credentials, accountEntries, results, exitCode,
                   initNotes, summaryNotes, summaryArg, accountDelays, lwaVars, resVars,
                   attVars>>

\* The 5 to 10 s timer between two accounts fires.
MainDelay ==
    /\ pc = "main_delay"
    /\ accountDelays' = accountDelays + 1
    /\ pc' = "main_loop"
    /\ i' = i + 1
    /\ UNCHANGED <<err, notifier, config, credentials, accountEntries, results, exitCode,
                   initNotes, summaryNotes, summaryArg, lwaVars, resVars, attVars>>

\* await sendSummaryNotification(results): the call
MainSummary ==
    /\ pc = "main_summary"
    /\ summaryNotes' = summaryNotes + 1
    /\ summaryArg' = results
    /\ notifier' = NotifierCall
    /\ pc' = "main_exit"
    /\ UNCHANGED <<err, config, credentials, accountEntries, i, results, exitCode, initNotes,
                   accountDelays, lwaVars, resVars, attVars>>

\* results.every for results.some.
HasFailure_EveryMutant(rs) == \A k \in 1..Len(rs) : ~rs[k].success

\* results.some(r => !r.success)
HasFailure(rs) == \E k \in 1..Len(rs) : ~rs[k].success

\* sendSummaryNotification has returned: process.exitCode is set
MainExit ==
    /\ pc = "main_exit"
    /\ notifier \in NotifierReturns
    /\ notifier' = "idle"
    /\ exitCode' = IF HasFailure(results) THEN <<1>> ELSE <<0>>
    /\ pc' = "done"
    /\ UNCHANGED <<err, config, credentials, accountEntries, i, results, initNotes,
                   summaryNotes, summaryArg, accountDelays, lwaVars, resVars, attVars>>

\* main's catch: await notifyTelegram({ stage: '初始化', ... }), the call
MainCatch ==
    /\ pc = "main_catch"
    /\ initNotes' = initNotes + 1
    /\ notifier' = NotifierCall
    /\ pc' = "main_failed"
    /\ UNCHANGED <<err, config, credentials, accountEntries, i, results, exitCode,
                   summaryNotes, summaryArg, accountDelays, lwaVars, resVars, attVars>>

\* main's catch, the notifier has returned: process.exitCode = 1
MainFailed ==
    /\ pc = "main_failed"
    /\ notifier \in NotifierReturns
    /\ notifier' = "idle"
    /\ exitCode' = <<1>>
    /\ pc' = "done"
    /\ UNCHANGED <<err, config, credentials, accountEntries, i, results, initNotes,
                   summaryNotes, summaryArg, accountDelays, lwaVars, resVars, attVars>>

(***************************************************************************)
(* loginWithAccount                                                        *)
(***************************************************************************)
\* The loop test with its bound off by one.
LoopCond_OffByOneMutant(rc, res) ==
    rc <= MAX_RETRIES + 1 /\ ~(Len(res) > 0 /\ res[1].success)

\* The loop test without the test of the last result.
LoopCond_IgnoreSuccessMutant(rc, res) ==
    rc <= MAX_RETRIES

\* while (retryCount <= MAX_RETRIES && !(result?.success))
LoopCond(rc, res) ==
    rc <= MAX_RETRIES /\ ~(Len(res) > 0 /\ res[1].success)

\* The loop test; when it holds, either the 5 s timer is awaited
\* (retryCount > 0) or attemptLogin is called at once.
LwaLoop ==
    /\ pc = "lwa_loop"
    /\ LoopCond(retryCount, result)
    /\ pc' = IF retryCount > 0 THEN "lwa_delay" ELSE "a_launch"
    /\ UNCHANGED <<err, notifier, mainVars, lwaVars, resVars, attVars>>

\* The 5 s timer before a retry fires.
LwaDelay ==
    /\ pc = "lwa_delay"
    /\ retryDelays' = retryDelays + 1
    /\ pc' = "a_launch"
    /\ UNCHANGED <<err, notifier, mainVars, retryCount, result, attempts, attemptLog,
                   resVars, attVars>>

\* return { ...result, retries: retryCount - 1 }, and main's results.push
LwaReturn ==
    /\ pc = "lwa_loop"
    /\ ~LoopCond(retryCount, result)
    /\ results' = Append(results,
                         [success |-> result[1].success,
                          username |-> result[1].username,
                          message |-> result[1].message,
                          retries |-> retryCount - 1])
    /\ pc' = "main_pushed"
    /\ UNCHANGED <<err, notifier, config, credentials, accountEntries, i, exitCode, initNotes,
                   summaryNotes, summaryArg, accountDelays, lwaVars, resVars, attVars>>

(***************************************************************************)
(* attemptLogin                                                            *)
(***************************************************************************)
\* The call of attemptLogin and chromium.launch, before the try block.
Launch ==
    /\ pc = "a_launch"
    /\ attempts' = attempts + 1
    /\ DropLocals
    /\ \/ browsers' = browsers + 1 /\ Goes("a_context")
       \/ browsers' = browsers /\ Escapes
    /\ UNCHANGED <<notifier, mainVars, retryCount, result, attemptLog, retryDelays, contexts>>

\* browser.newContext, before the try block
NewContext ==
    /\ pc = "a_context"
    /\ \/ contexts' = contexts + 1 /\ Goes("a_page")
       \/ contexts' = contexts /\ Escapes
    /\ UNCHANGED <<notifier, mainVars, lwaVars, browsers, attVars>>

\* context.newPage, before the try block
NewPage ==
    /\ pc = "a_page"
    /\ \/ Goes("a_goto")
       \/ Escapes
    /\ UNCHANGED <<notifier, mainVars, lwaVars, resVars, attVars>>

\* page.goto(LOGIN_URL, ...)
Goto ==
    /\ pc = "a_goto"
    /\ \/ \E p \in NavPages : page' = p /\ Goes("a_botcheck")
       \/ page' = page /\ Throws
    /\ UNCHANGED <<notifier, mainVars, lwaVars, resVars, botDetected, formOps,
                   captureCalls, capturePaths, captureFaults, polls, notes,
                   attemptResult>>

\* if (await humanCheckText.count())
HumanCheck ==
    /\ pc = "a_botcheck"
    /\ \/ /\ botDetected' = (Count(page, humanCheckSelector) > 0)
          /\ Goes(IF Count(page, humanCheckSelector) > 0
                  THEN "a_botshot" ELSE "a_wait")
       \/ botDetected' = botDetected /\ Throws
    /\ UNCHANGED <<notifier, mainVars, lwaVars, resVars, page, formOps, captureCalls,
                   capturePaths, captureFaults, polls, notes, attemptResult>>

\* await page.screenshot({ path: screenshot(stage), fullPage: true }) inside
\* the try block: it resolves, or it rejects and the catch block runs.
Capture(stage, to) ==
    /\ captureCalls' = Append(captureCalls, stage)
    /\ capturePaths' = Append(capturePaths, screenshot(stage, i, username, retryCount))
    /\ \/ captureFaults' = captureFaults /\ Goes(to)
       \/ captureFaults' = Append(captureFaults, stage) /\ Throws

\* page.screenshot({ path: screenshot('01-human-check') })
HumanCheckCapture ==
    /\ pc = "a_botshot"
    /\ Capture("01-human-check", "a_botnotify")
    /\ UNCHANGED <<notifier, mainVars, lwaVars, resVars, page, botDetected, formOps,
                   polls, notes, attemptResult>>

\* await notifyTelegram({ ok: false, stage: '打开登录页', ... }), the call
HumanCheckNotify ==
    /\ pc = "a_botnotify"
    /\ notifier = "idle"
    /\ notes' = Append(notes, Note(FALSE, "open"))
    /\ notifier' = NotifierCall
    /\ UNCHANGED <<pc, err, mainVars, lwaVars, resVars, page, botDetected, formOps,
                   captureCalls, capturePaths, captureFaults, polls, attemptResult>>

\* The human-check branch without its return: control falls through to the
\* form.
HumanCheckReturn_FallThroughMutant ==
    /\ pc = "a_botnotify"
    /\ notifier \in NotifierReturns
    /\ notifier' = "idle"
    /\ Goes("a_wait")
    /\ UNCHANGED <<mainVars, lwaVars, resVars, attVars>>

\* The notifier has returned:
\* return { success: false, username, message: '人机验证页面' }
HumanCheckReturn ==
    /\ pc = "a_botnotify"
    /\ notifier \in NotifierReturns
    /\ notifier' = "idle"
    /\ attemptResult' = << Outcome(FALSE, username, MsgHumanCheck) >>
    /\ Goes("a_finally")
    /\ UNCHANGED <<mainVars, lwaVars, resVars, page, botDetected, formOps, captureCalls,
                   capturePaths, captureFaults, polls, notes>>

\* await smartWait(page, condition, 30000), one turn of its loop per step,
\* each turn taking checkInterval.  When the time is up it returns false,
\* and the caller drops the value.  Otherwise the condition is evaluated:
\* true returns it; false, or a rejection (swallowed), is followed by
\* page.waitForTimeout(checkInterval), which resolves or rejects.
SmartWait ==
    /\ pc = "a_wait"
    /\ IF polls >= MaxPolls
       THEN /\ polls' = 0
            /\ Goes("a_form")
       ELSE \/ polls' = 0 /\ Goes("a_form")
            \/ polls' = polls + 1 /\ Goes("a_wait")
            \/ polls' = polls /\ Throws
    /\ UNCHANGED <<notifier, mainVars, lwaVars, resVars, page, botDetected, formOps,
                   captureCalls, capturePaths, captureFaults, notes, attemptResult>>

\* The six calls on the two fields, in order.
FormSteps ==
    << "userInput.click", "userInput.clear", "userInput.fill",
       "passInput.click", "passInput.clear", "passInput.fill" >>

\* The next of the six calls: it acts, or it rejects.
FormOp ==
    /\ pc = "a_form"
    /\ LET step == FormSteps[Len(formOps) + 1]
       IN  \/ /\ formOps' = Append(formOps, step)
              /\ Goes(IF Len(formOps) + 1 < Len(FormSteps) THEN "a_form" ELSE "a_btnwait")
           \/ formOps' = formOps /\ Throws
    /\ UNCHANGED <<notifier, mainVars, lwaVars, resVars, page, botDetected, captureCalls,
                   capturePaths, captureFaults, polls, notes, attemptResult>>

\* loginBtn.waitFor({ state: 'visible', timeout: 15_000 })
ButtonWait ==
    /\ pc = "a_btnwait"
    /\ \/ Goes("a_shot_before")
       \/ Throws
    /\ UNCHANGED <<notifier, mainVars, lwaVars, resVars, attVars>>

\* page.screenshot({ path: screenshot('02-before-submit') })
CaptureBefore ==
    /\ pc = "a_shot_before"
    /\ Capture("02-before-submit", "a_submit")
    /\ UNCHANGED <<notifier, mainVars, lwaVars, resVars, page, botDetected, formOps,
                   polls, notes, attemptResult>>

\* loginBtn.click({ timeout: 10_000 }), the navigation wait already pending
Submit ==
    /\ pc = "a_submit"
    /\ \/ formOps' = Append(formOps, "loginBtn.click") /\ Goes("a_navwait")
       \/ formOps' = formOps /\ Throws
    /\ UNCHANGED <<notifier, mainVars, lwaVars, resVars, page, botDetected, captureCalls,
                   capturePaths, captureFaults, polls, notes, attemptResult>>

\* await navigationPromise: fulfilled, or its rejection caught and logged
NavigationWait ==
    /\ pc = "a_navwait"
    /\ Goes("a_settle")
    /\ UNCHANGED <<notifier, mainVars, lwaVars, resVars, attVars>>

\* waitForLoadState(...).catch(() => {}) and waitForTimeout(3000); the page
\* is now what the classifier will read.
Settle ==
    /\ pc = "a_settle"
    /\ \/ \E p \in PostPages : page' = p /\ Goes("a_shot_after")
       \/ page' = page /\ Throws
    /\ UNCHANGED <<notifier, mainVars, lwaVars, resVars, botDetected, formOps,
                   captureCalls, capturePaths, captureFaults, polls, notes,
                   attemptResult>>

\* page.screenshot({ path: screenshot('03-after-submit') })
CaptureAfter ==
    /\ pc = "a_shot_after"
    /\ Capture("03-after-submit", "a_classify")
    /\ UNCHANGED <<notifier, mainVars, lwaVars, resVars, page, botDetected, formOps,
                   polls, notes, attemptResult>>

\* page.url(), the successSelectors loop, the success test and, in its
\* branch, the call of notifyTelegram({ ok: true, stage: '登录结果', ... })
ClassifySuccess ==
    /\ pc = "a_classify"
    /\ \/ IF IsSuccess(StillOnLogin(page.url), SuccessHint(page))
          THEN /\ notes' = Append(notes, Note(TRUE, "result"))
               /\ notifier' = NotifierCall
               /\ Goes("a_success")
          ELSE /\ Goes("a_errors")
               /\ UNCHANGED <<notes, notifier>>
       \/ Throws /\ UNCHANGED <<notes, notifier>>
    /\ UNCHANGED <<mainVars, lwaVars, resVars, page, botDetected, formOps, captureCalls,
                   capturePaths, captureFaults, polls, attemptResult>>

\* The notifier has returned:
\* return { success: true, username, message: '登录成功' }
ReturnSuccess ==
    /\ pc = "a_success"
    /\ notifier \in NotifierReturns
    /\ notifier' = "idle"
    /\ attemptResult' = << Outcome(TRUE, username, MsgSuccess) >>
    /\ Goes("a_finally")
    /\ UNCHANGED <<mainVars, lwaVars, resVars, page, botDetected, formOps, captureCalls,
                   capturePaths, captureFaults, polls, notes>>

\* The errorSelectors loop, the title/body fallback and the call of
\* notifyTelegram({ ok: false, stage: '登录结果', ... })
ClassifyFailure ==
    /\ pc = "a_errors"
    /\ \/ /\ notes' = Append(notes, Note(FALSE, "result"))
          /\ notifier' = NotifierCall
          /\ Goes("a_failure")
       \/ Throws /\ UNCHANGED <<notes, notifier>>
    /\ UNCHANGED <<mainVars, lwaVars, resVars, page, botDetected, formOps, captureCalls,
                   capturePaths, captureFaults, polls, attemptResult>>

\* The notifier has returned:
\* return { success: false, username, message: errorMsg || '登录失败' }
ReturnFailure ==
    /\ pc = "a_failure"
    /\ notifier \in NotifierReturns
    /\ notifier' = "idle"
    /\ attemptResult' = << Outcome(FALSE, username, FailureMessage(page)) >>
    /\ Goes("a_finally")
    /\ UNCHANGED <<mainVars, lwaVars, resVars, page, botDetected, formOps, captureCalls,
                   capturePaths, captureFaults, polls, notes>>

\* catch (e): the '99-error' capture, resolved or rejected and swallowed,
\* and the call of notifyTelegram({ ok: false, stage: '异常', ... })
Catch ==
    /\ pc = "a_catch"
    /\ captureCalls' = Append(captureCalls, "99-error")
    /\ capturePaths' = Append(capturePaths, screenshot("99-error", i, username, retryCount))
    /\ \/ captureFaults' = captureFaults
       \/ captureFaults' = Append(captureFaults, "99-error")
    /\ notes' = Append(notes, Note(FALSE, "exception"))
    /\ notifier' = NotifierCall
    /\ Goes("a_exception")
    /\ UNCHANGED <<mainVars, lwaVars, resVars, page, botDetected, formOps,
                   polls, attemptResult>>

\* The notifier has returned:
\* return { success: false, username, message: `异常: ${e.message}` }
ReturnException ==
    /\ pc = "a_exception"
    /\ notifier \in NotifierReturns
    /\ notifier' = "idle"
    /\ attemptResult' = << Outcome(FALSE, username, Concat(ExceptionPrefix, err)) >>
    /\ pc' = "a_finally"
    /\ err' = <<>>
    /\ UNCHANGED <<mainVars, lwaVars, resVars, page, botDetected, formOps, captureCalls,
                   capturePaths, captureFaults, polls, notes>>

\* finally: await context.close()
CloseContext ==
    /\ pc = "a_finally"
    /\ \/ contexts' = contexts - 1 /\ Goes("a_close_browser") /\ UNCHANGED attVars
       \/ contexts' = contexts /\ Escapes /\ DropLocals
    /\ UNCHANGED <<notifier, mainVars, lwaVars, browsers>>

\* How a returned attempt ended, from the notification it sent last.
OutcomeKind(res, ns) ==
    IF res.success THEN "success"
    ELSE IF ns[Len(ns)].stage = "open" THEN "bot"
    ELSE IF ns[Len(ns)].stage = "exception" THEN "fault"
    ELSE "failure"

\* finally: browser.close() not awaited: attemptLogin returns with the
\* browser still open.
CloseBrowser_NotAwaitedMutant ==
    /\ pc = "a_close_browser"
    /\ browsers' = browsers
    /\ result' = attemptResult
    /\ retryCount' = retryCount + 1
    /\ attemptLog' = Append(attemptLog, OutcomeKind(attemptResult[1], notes))
    /\ Goes("lwa_loop")
    /\ DropLocals
    /\ UNCHANGED <<notifier, mainVars, attempts, retryDelays, contexts>>

\* finally: await browser.close(); then attemptLogin returns and
\* loginWithAccount assigns result and increments retryCount.
CloseBrowser ==
    /\ pc = "a_close_browser"
    /\ \/ /\ browsers' = browsers - 1
          /\ result' = attemptResult
          /\ retryCount' = retryCount + 1
          /\ attemptLog' = Append(attemptLog, OutcomeKind(attemptResult[1], notes))
          /\ Goes("lwa_loop")
       \/ /\ Escapes
          /\ UNCHANGED <<browsers, result, retryCount, attemptLog>>
    /\ DropLocals
    /\ UNCHANGED <<notifier, mainVars, attempts, retryDelays, contexts>>

Next ==
    \/ MainStart \/ MainLoop \/ MainPushed \/ MainDelay \/ MainSummary \/ MainExit
    \/ MainCatch \/ MainFailed
    \/ LwaLoop \/ LwaDelay \/ LwaReturn
    \/ Launch \/ NewContext \/ NewPage \/ Goto \/ HumanCheck \/ HumanCheckCapture
    \/ HumanCheckNotify \/ HumanCheckReturn \/ SmartWait \/ FormOp \/ ButtonWait
    \/ CaptureBefore \/ Submit \/ NavigationWait \/ Settle \/ CaptureAfter
    \/ ClassifySuccess \/ ReturnSuccess \/ ClassifyFailure \/ ReturnFailure
    \/ Catch \/ ReturnException \/ CloseContext \/ CloseBrowser
    \/ SendMessage \/ SendPhoto

Spec == Init /\ [][Next]_vars

\* Every step of the program but the settling of the notifier's fetches.
CoreNext ==
    \/ MainStart \/ MainLoop \/ MainPushed \/ MainDelay \/ MainSummary \/ MainExit
    \/ MainCatch \/ MainFailed
    \/ LwaLoop \/ LwaDelay \/ LwaReturn
    \/ Launch \/ NewContext \/ NewPage \/ Goto \/ HumanCheck \/ HumanCheckCapture
    \/ HumanCheckNotify \/ HumanCheckReturn \/ SmartWait \/ FormOp \/ ButtonWait
    \/ CaptureBefore \/ Submit \/ NavigationWait \/ Settle \/ CaptureAfter
    \/ ClassifySuccess \/ ReturnSuccess \/ ClassifyFailure \/ ReturnFailure
    \/ Catch \/ ReturnException \/ CloseContext \/ CloseBrowser

\* Every driver call and every timer settles, and so does every fetch of the
\* notifier: no step that can be taken is put off for ever.
FairSpec == Spec /\ WF_vars(Next)

\* Every driver call and every timer settles; a fetch of the notifier may
\* stay pending for ever.
PendingFetchSpec == Spec /\ WF_vars(CoreNext)

(***************************************************************************)
(* The classifier on its own: attemptLogin stands right after the          *)
(* '03-after-submit' capture of an account's first attempt, and the page   *)
(* is any of ClassifierPages.                                              *)
(***************************************************************************)
InitClassifier ==
    /\ config = [raw |-> "json", value |-> JsonObject(1)]
    /\ credentials \in BOOLEAN
    /\ notifier = "idle"
    /\ pc = "a_classify"
    /\ err = <<>>
    /\ accountEntries = ObjectEntries(JsonObject(1))
    /\ i = 0
    /\ results = <<>>
    /\ exitCode = <<>>
    /\ initNotes = 0
    /\ summaryNotes = 0
    /\ summaryArg = <<>>
    /\ accountDelays = 0
    /\ retryCount = 0
    /\ result = <<>>
    /\ attempts = 1
    /\ attemptLog = <<>>
    /\ retryDelays = 0
    /\ browsers = 1
    /\ contexts = 1
    /\ page \in ClassifierPages
    /\ botDetected = FALSE
    /\ formOps = FormSteps \o << "loginBtn.click" >>
    /\ captureCalls = << "02-before-submit", "03-after-submit" >>
    /\ capturePaths = << screenshot("02-before-submit", 0, UserNames[1], 0),
                         screenshot("03-after-submit", 0, UserNames[1], 0) >>
    /\ captureFaults = <<>>
    /\ polls = 0
    /\ notes = <<>>
    /\ attemptResult = <<>>

NextClassifier ==
    \/ ClassifySuccess \/ ReturnSuccess \/ ClassifyFailure \/ ReturnFailure
    \/ SendMessage \/ SendPhoto

ClassifierSpec == InitClassifier /\ [][NextClassifier]_vars

(***************************************************************************)
(* Properties.                                                             *)
(***************************************************************************)
\* The control positions inside attemptLogin, once the browser is launched.
AttemptPcs ==
    { "a_context", "a_page", "a_goto", "a_botcheck", "a_botshot", "a_botnotify", "a_wait",
      "a_form", "a_btnwait", "a_shot_before", "a_submit", "a_navwait", "a_settle",
      "a_shot_after", "a_classify", "a_success", "a_errors", "a_failure", "a_catch",
      "a_exception", "a_finally", "a_close_browser" }

\* loginWithAccount has returned for account i and main has not moved on.
Returned == Len(results) = i + 1

\* The configuration value is a JSON object with at least one member.
ConfigIsAccountObject ==
    config.raw = "json" /\ config.value.t = "object" /\ Len(config.value.items) >= 1

ConfigErrors == { MsgEnvUnset, MsgBadJson, MsgNotObject, MsgNoAccounts }

\* The classifier has reached its return statement.
Classified ==
    attemptResult # <<>> /\ notes # <<>> /\ notes[Len(notes)].stage = "result"

\* The URLs of ClassifierPages that are on the login path.
LoginShapedUrls == { LOGIN_URL, UrlLoginUpper }

AnySuccessPhrase(pg) ==
    \E k \in 1..Len(successSelectors) :
        \E e \in 1..Len(pg.elems) : Matches(successSelectors[k], pg.elems[e])

\* The error selectors whose first match renders a text longer than 1.
ReasonEntries(pg) ==
    { k \in 1..Len(errorSelectors) :
        /\ \E e \in 1..Len(pg.elems) : Matches(errorSelectors[k], pg.elems[e])
        /\ Len(InnerTextOrEmpty(First(pg, errorSelectors[k]))) > 1 }

\* C1: once an attempt of an account has ended with the bot-check failure,
\* no further attempt is made for that account: one attempt in total, and
\* the retries returned are 0.
C1_BotCheckEndsRetries ==
    (\E k \in 1..Len(attemptLog) : attemptLog[k] = "bot")
        => /\ attempts = 1
           /\ Returned => results[i + 1].retries = 0

\* C2: when main has finished on a non-empty account object, results holds
\* one Outcome per input account, the k-th for the k-th account.
C2_OneOutcomePerAccount ==
    (pc = "done" /\ ConfigIsAccountObject)
        => /\ Len(results) = Len(config.value.items)
           /\ \A k \in 1..Len(results) : results[k].username = config.value.items[k][1]

\* C3: at most MAX_RETRIES + 1 attempts are started for one account, and the
\* retries loginWithAccount returns are the attempts made minus one, between
\* 0 and MAX_RETRIES.
C3_AttemptsBounded ==
    /\ attempts <= MAX_RETRIES + 1
    /\ Returned => /\ results[i + 1].retries = attempts - 1
                   /\ results[i + 1].retries \in 0..MAX_RETRIES

C3_Witness ==
    Returned /\ attempts = MAX_RETRIES + 1 /\ results[i + 1].retries = MAX_RETRIES

\* C4: no fault of a driver call made for an attempt leaves attemptLogin;
\* what main's catch handles is a configuration error, raised before any
\* attempt.
C4_OnlyConfigErrorsReachMain ==
    pc = "main_catch" => (err \in ConfigErrors /\ attempts = 0 /\ results = <<>>)

\* C5: whenever no attempt is in progress, no browser and no browsing
\* context is open.
C5_NoSessionOutsideAttempt ==
    pc \notin AttemptPcs => (browsers = 0 /\ contexts = 0)

\* C6: the exit code is set when main ends and not before; it is 0 exactly
\* when initialization succeeded and every account has a SUCCESS Outcome,
\* and 1 when some Outcome is a FAILURE or initialization failed.
C6_ExitCode ==
    /\ pc # "done" => exitCode = <<>>
    /\ pc = "done" =>
        /\ exitCode \in { <<0>>, <<1>> }
        /\ exitCode = <<0>> <=>
              /\ ParseConfig(config).ok
              /\ Len(results) = Len(accountEntries)
              /\ \A k \in 1..Len(results) : results[k].success
        /\ ((\E k \in 1..Len(results) : ~results[k].success) \/ ~ParseConfig(config).ok)
              => exitCode = <<1>>

C6_Witness ==
    /\ pc = "done"
    /\ exitCode = <<0>>
    /\ Len(results) >= 2
    /\ \E k \in 1..Len(results) : results[k].retries > 0

\* C7: a configuration value that is absent, not JSON, or not a JSON object
\* with at least one member starts no attempt and no driver call, and main
\* ends with one initialization-failure notification and exit code 1.
C7_BadConfigFailsFast ==
    ~ConfigIsAccountObject
        => /\ pc \in { "main_start", "main_catch", "main_failed", "done" }
           /\ attempts = 0 /\ browsers = 0 /\ contexts = 0
           /\ pc = "done" => (initNotes = 1 /\ summaryNotes = 0 /\ exitCode = <<1>>)

\* C8: the classifier returns SUCCESS exactly when the URL is off the login
\* path or some success phrase is on the page, whatever else the page
\* holds, and it reaches the error scan only when that test has failed.
C8_ClassifierStatus ==
    /\ Classified =>
          (attemptResult[1].success
              <=> (page.url \notin LoginShapedUrls \/ AnySuccessPhrase(page)))
    /\ pc = "a_errors" => (page.url \in LoginShapedUrls /\ ~AnySuccessPhrase(page))

C8_Witness ==
    /\ Classified
    /\ attemptResult[1].success
    /\ page.url = UrlLoginUpper
    /\ \E e \in 1..Len(page.elems) : page.elems[e] = E_Invalid

\* C9: the reason of a classified FAILURE is the text of the first error
\* selector, in list order, whose match renders more than one character;
\* without such a selector it is the page-error reason when the title or the
\* body holds the marker, else the generic reason.
C9_FailureReason ==
    (Classified /\ ~attemptResult[1].success) =>
        attemptResult[1].message =
            IF ReasonEntries(page) # {}
            THEN InnerTextOrEmpty(First(page,
                     errorSelectors[CHOOSE k \in ReasonEntries(page) :
                                        \A j \in ReasonEntries(page) : k <= j]))
            ELSE IF Includes(page.title, ErrorMarker) \/ BodyIncludes(page, ErrorMarker)
                 THEN MsgPageError
                 ELSE MsgLoginFailed

\* C10: in an attempt whose bot-check matched, no form field or submit
\* control is ever touched, and the attempt's return value is a FAILURE
\* reached after the '01-human-check' capture call and a notification.
C10_BotCheckSkipsForm ==
    botDetected =>
        /\ formOps = <<>>
        /\ pc \in { "a_botshot", "a_botnotify", "a_catch", "a_exception", "a_finally",
                    "a_close_browser" }
        /\ attemptResult # <<>> =>
              /\ ~attemptResult[1].success
              /\ \E c \in 1..Len(captureCalls) : captureCalls[c] = "01-human-check"
              /\ notes # <<>>

C10_Witness ==
    /\ botDetected
    /\ pc = "a_close_browser"
    /\ attemptResult # <<>>
    /\ attemptResult[1].message = MsgHumanCheck

\* The Outcome the classifier returns for a page when nothing faults.
ClassifiedOutcome(pg) ==
    IF IsSuccess(StillOnLogin(pg.url), SuccessHint(pg))
    THEN Outcome(TRUE, username, MsgSuccess)
    ELSE Outcome(FALSE, username, FailureMessage(pg))

\* C11: a capture call that rejects does not change the attempt's result:
\* it never passes control to the fault handler, an attempt whose bot-check
\* matched returns the bot-check FAILURE, and an attempt whose
\* '03-after-submit' capture rejected returns what the classifier makes of
\* the page.
C11_CaptureFaultKeepsOutcome ==
    /\ pc = "a_catch" => captureFaults = <<>>
    /\ (attemptResult # <<>> /\ botDetected)
          => attemptResult[1] = Outcome(FALSE, username, MsgHumanCheck)
    /\ (attemptResult # <<>>
          /\ \E c \in 1..Len(captureFaults) : captureFaults[c] = "03-after-submit")
          => attemptResult[1] = ClassifiedOutcome(page)

\* Everything but where the notifier call stands.
coreVars == <<pc, err, mainVars, lwaVars, resVars, attVars>>

\* The positions at which attemptLogin awaits the notifier.
AttemptNotifySites == { "a_botnotify", "a_success", "a_failure", "a_exception" }

\* C12: the notifier never influences control flow.  While one of its
\* fetches is pending, its settling, fulfilled or rejected, changes nothing
\* of the program; and once it has returned, skipped, sent or failed alike,
\* the caller goes on to the same position with the same result: the return
\* of the attempt (a SUCCESS only from the success branch), or the end of
\* main with the exit code the results call for.  No rejection reaches the
\* caller.
C12_NotifierKeepsControlFlow ==
    [][ /\ notifier \in { "sendMessage", "sendPhoto" }
              => (UNCHANGED coreVars /\ notifier' \in { "sendPhoto", "sent", "failed" })
        /\ notifier \in NotifierReturns
              => /\ notifier' = "idle"
                 /\ pc' = IF pc \in AttemptNotifySites THEN "a_finally" ELSE "done"
                 /\ UNCHANGED <<results, attempts, retryCount, result, notes>>
                 /\ pc \in AttemptNotifySites
                       => /\ attemptResult' # <<>>
                          /\ attemptResult'[1].success = (pc = "a_success")
                          /\ exitCode' = exitCode
                 /\ pc = "main_exit"
                       => exitCode' = IF \A k \in 1..Len(results) : results[k].success
                                      THEN <<0>> ELSE <<1>>
                 /\ pc = "main_failed" => exitCode' = <<1>>
      ]_vars

\* A fetch of the notifier was rejected inside the fault handler of a later
\* account's attempt, and the notifier has returned to it.
C12_Witness ==
    /\ notifier = "failed"
    /\ pc = "a_exception"
    /\ Len(results) >= 1

\* C13: a fetch of the notifier that never settles holds nothing up: when
\* every driver call and timer settles, main reaches the point where the
\* exit code is set, which lies after every account's Outcome.
C13_NotifierNeverBlocks ==
    <>(exitCode # <<>>)

\* The Outcome is the one of an attempt that ended in the fault handler.
IsFaultOutcome(r) ==
    /\ ~r.success
    /\ Len(r.message) > Len(ExceptionPrefix)
    /\ SubSeq(r.message, 1, Len(ExceptionPrefix)) = ExceptionPrefix

\* C14: retry counts are per account.  Whatever its place in the input and
\* whatever happened to the accounts before it, an account all of whose
\* attempts ended in the fault handler has had MAX_RETRIES + 1 attempts and
\* reports retries = MAX_RETRIES, and an account whose first attempt
\* succeeded has had that one attempt and reports retries = 0; and a batch
\* with a FAILURE among its Outcomes ends with exit code 1.
C14_RetriesPerAccount ==
    /\ Returned =>
          /\ attempts >= 1
          /\ Len(attemptLog) = attempts
          /\ (\A k \in 1..Len(attemptLog) : attemptLog[k] = "fault")
                => /\ attempts = MAX_RETRIES + 1
                   /\ results[i + 1].retries = MAX_RETRIES
                   /\ IsFaultOutcome(results[i + 1])
          /\ attemptLog[1] = "success"
                => /\ attempts = 1
                   /\ results[i + 1].retries = 0
                   /\ results[i + 1].success
    /\ (pc = "done" /\ \E k \in 1..Len(results) : ~results[k].success)
          => exitCode = <<1>>

\* The batch is over: the first account faulted on every attempt, every
\* account after it succeeded at once, and the exit code is 1.
C14_Witness ==
    /\ pc = "done"
    /\ Len(results) = Len(accountEntries)
    /\ Len(results) >= 2
    /\ IsFaultOutcome(results[1])
    /\ results[1].retries = MAX_RETRIES
    /\ \A k \in 2..Len(results) : results[k].success /\ results[k].retries = 0
    /\ exitCode = <<1>>

\* The positions of loginWithAccount between two attempts.
BetweenAttemptPcs == { "lwa_loop", "lwa_delay", "a_launch" }

\* C15: accounts and retries are processed one after the other.  At most one
\* browser and one context are open at any moment; while loginWithAccount
\* runs for an account, the Outcomes of exactly the accounts before it are
\* in results; an attempt starts only when every earlier attempt of the
\* account has returned and no browser or context is open; and while an
\* attempt runs, it is the only one that has not returned.
C15_StrictlySequential ==
    /\ browsers <= 1 /\ contexts <= 1
    /\ pc \in BetweenAttemptPcs \cup AttemptPcs => Len(results) = i
    /\ pc \in BetweenAttemptPcs
          => (browsers = 0 /\ contexts = 0 /\ Len(attemptLog) = attempts)
    /\ pc \in AttemptPcs => Len(attemptLog) = attempts - 1

\* A retry of the second account is under way, with its own browser.
C15_Witness ==
    /\ pc = "a_goto"
    /\ i = 1
    /\ Len(results) = 1
    /\ attempts = 2
    /\ browsers = 1

\* C16: when every driver call, timer and fetch settles, every run ends with
\* the exit code set; the polling loop of smartWait and the retry loop stay
\* within their bounds; and a rejected driver call is dealt with inside its
\* attempt, by the fault handler, so that it never ends the batch.
C16_EveryRunTerminates ==
    /\ <>(pc = "done" /\ exitCode # <<>>)
    /\ [](polls <= MaxPolls /\ attempts <= MAX_RETRIES + 1)
    /\ [](err \in FaultTexts => pc \in { "a_catch", "a_exception" })

\* C17: when the bounded wait for the two fields is exhausted, the attempt
\* goes to the fault handler at once, with the timeout as its fault, so no
\* click, clear, fill or submit follows in that attempt.
C17_ExhaustedWaitFaults ==
    [][ (pc = "a_wait" /\ polls >= MaxPolls)
            => (pc' = "a_catch" /\ err' \in FaultTexts /\ formOps' = <<>>) ]_vars

\* C18: loginWithAccount stops at the first SUCCESS.  A SUCCESS is only ever
\* the last entry of an account's attempts, and no attempt is being started
\* or made after it; the Outcome returned is the result of the last attempt
\* made, so it is a SUCCESS exactly when that attempt succeeded; and the
\* retries are 0 when the first attempt succeeded.
C18_StopsAtFirstSuccess ==
    /\ \A k \in 1..Len(attemptLog) :
          attemptLog[k] = "success"
              => /\ k = Len(attemptLog)
                 /\ attempts = k
                 /\ pc \notin { "lwa_delay", "a_launch" } \cup AttemptPcs
    /\ Returned =>
          /\ result # <<>>
          /\ results[i + 1].success = result[1].success
          /\ results[i + 1].username = result[1].username
          /\ results[i + 1].message = result[1].message
          /\ results[i + 1].success = (attemptLog[Len(attemptLog)] = "success")
          /\ attemptLog[1] = "success" => results[i + 1].retries = 0

\* An account has returned a SUCCESS made by its second attempt.
C18_Witness ==
    /\ Returned
    /\ attemptLog = << "failure", "success" >>
    /\ results[i + 1].success
    /\ results[i + 1].retries = 1

\* C19: delays are waited only between units of work.  The retry delay has
\* been waited once before every attempt of the account but its first, and
\* not after its last; the inter-account delay has been waited once after
\* every account but the last: i of them while account i + 1 is processed,
\* and n - 1 once all n accounts are done.
C19_DelaysOnlyBetween ==
    /\ pc = "a_launch" => retryDelays = attempts
    /\ pc \in AttemptPcs => retryDelays = attempts - 1
    /\ Returned => retryDelays = attempts - 1
    /\ Len(accountEntries) > 0 =>
          accountDelays = IF i < Len(accountEntries) THEN i ELSE Len(accountEntries) - 1
    /\ (pc = "done" /\ Len(results) = Len(accountEntries) /\ Len(results) > 0)
          => accountDelays = Len(results) - 1

\* The run is over: one delay fewer than accounts, and the last account used
\* all its retries, each after a retry delay.
C19_Witness ==
    /\ pc = "done"
    /\ Len(results) = Len(accountEntries)
    /\ Len(results) >= 2
    /\ accountDelays = Len(results) - 1
    /\ retryDelays = MAX_RETRIES
    /\ attempts = MAX_RETRIES + 1

\* C20: the summary notification is requested at most once, after the
\* Outcome of the last account was appended, with the complete results, and
\* while the exit code is still unset; a run whose configuration passed
\* initialization has requested it when the exit code is set, and a run
\* whose configuration failed never requests it.
C20_SummaryExactlyOnce ==
    /\ summaryNotes <= 1
    /\ summaryNotes = 1 =>
          /\ Len(results) = Len(accountEntries)
          /\ summaryArg = results
          /\ i = Len(accountEntries)
    /\ pc = "main_exit" => (summaryNotes = 1 /\ exitCode = <<>>)
    /\ (ParseConfig(config).ok /\ exitCode # <<>>) => summaryNotes = 1
    /\ ~ParseConfig(config).ok => summaryNotes = 0

\* The stage names attemptLogin passes to screenshot().
Stages == { "01-human-check", "02-before-submit", "03-after-submit", "99-error" }

\* The attempts made before the current one, as <<accountIndex, retryIndex>>:
\* those of the accounts already returned (results[j + 1].retries + 1 each)
\* and the earlier ones of the current account.
EarlierAttempts ==
    { <<j, r>> \in (0..(i - 1)) \X (0..MAX_RETRIES) : r <= results[j + 1].retries }
    \cup { <<i, r>> : r \in 0..(retryCount - 1) }

\* The paths screenshot() yields in an attempt, one per stage name: what the
\* attempt can have given to page.screenshot.
PathsOf(att) ==
    { screenshot(name, att[1], accountEntries[att[1] + 1][1], att[2]) : name \in Stages }

\* C21: diagnostic artifacts are write-once within a run.  Whenever an
\* attempt calls page.screenshot, the stage has not been captured in this
\* attempt before; the path given is the one screenshot() yields for the
\* call's (stage, accountIndex, retryIndex); it is not the path of another
\* capture of the attempt; and it is not a path screenshot() yields, for any
\* stage, in an earlier attempt of the run (another account, or the same
\* account at a lower retry index).  So no page.screenshot call is given a
\* path a previous call of the run was given.
C21_ArtifactsWriteOnce ==
    [][Len(captureCalls') > Len(captureCalls) =>
          LET stage == captureCalls'[Len(captureCalls')]
              path == capturePaths'[Len(capturePaths')]
          IN  /\ Len(captureCalls') = Len(captureCalls) + 1
              /\ Len(capturePaths') = Len(captureCalls')
              /\ stage \in Stages
              /\ \A p \in 1..Len(captureCalls) : captureCalls[p] # stage
              /\ path = screenshot(stage, i, username, retryCount)
              /\ \A p \in 1..Len(capturePaths) : capturePaths[p] # path
              /\ \A att \in EarlierAttempts : path \notin PathsOf(att)]_vars

\* The second account, whose sanitized name is that of the first account, is
\* in its last retry after the first account used all of its retries, and
\* the attempt has made both of its submit captures and the error capture.
C21_Witness ==
    /\ pc = "a_exception"
    /\ i = 1
    /\ retryCount = MAX_RETRIES
    /\ results[1].retries = MAX_RETRIES
    /\ Sanitize(accountEntries[1][1]) = Sanitize(accountEntries[2][1])
    /\ captureCalls = << "02-before-submit", "03-after-submit", "99-error" >>

====
